---- MODULE Spec2Model ----
(***************************************************************************)
(* JobFlow backend: job applications, daily streak records and achievement *)
(* rows (streak_service.py, achievement_service.py, job_applications.py).  *)
(*                                                                         *)
(* The three tables are modelled as the relational tables they are:        *)
(*   apps          job_applications, a bag of (user_id, applied_date,      *)
(*                 status) rows (the UUID key is never read by the code    *)
(*                 modelled here, so equal rows are interchangeable);      *)
(*   streaks       streaks, in insertion order;                            *)
(*   achievements  achievements, in insertion order: the position of a row *)
(*                 is its primary key, rows are never deleted.             *)
(* Spec and SpecStreak take every handler as one step (the handlers are    *)
(* coroutines that never suspend); SpecRace takes POST /job-applications/  *)
(* statement by statement, for requests served by different workers;       *)
(* SpecLegacy starts from a table that holds a row of an unknown type;     *)
(* SpecMotivation applies the message selector to every small argument.    *)
(* SpecClose follows one user up to the fourth application; SpecWalk runs  *)
(* the loop of calculate_current_streak pass by pass.  The other parts of  *)
(* the backend have a variable and a specification each: SpecReset         *)
(* (password reset tokens), SpecJwt (SecureJWTHandler), SpecLimiter        *)
(* (SecurityMiddleware.is_rate_limited), SpecSocial (friendships).         *)
(* Time is the calendar day `today`: date.today(), func.date(applied_date) *)
(* and the day of datetime.utcnow() all read it (instants are kept at day  *)
(* granularity, no operation modelled here reads the time of day).         *)
(***************************************************************************)
EXTENDS Integers, Sequences, FiniteSets, Bags, TLC

\* ------------------------------------------------------------------ bounds
MaxApps == 3        \* applications created in one behaviour of Spec
MaxDay == 1         \* last calendar day of Spec (days are 0..MaxDay)
MaxStreakApps == 3  \* applications created in one behaviour of SpecStreak
MaxStreakDay == 3   \* last calendar day of SpecStreak
MaxCount == 5       \* largest streak, count and goal SpecMotivation selects for
MaxRequests == 2    \* POST requests in flight together in SpecRace
MaxCloseApps == 4   \* applications created in one behaviour of SpecClose
MaxCloseDay == 1    \* last calendar day of SpecClose
MaxWalkDay == 2     \* last calendar day of the records and clock of SpecWalk
MaxTokens == 2      \* tokens issued in one behaviour of SpecJwt
MaxJwtDay == 8      \* last day of the clock of SpecJwt
MaxBatches == 3     \* request batches in one behaviour of SpecLimiter
MaxLimiterClock == 90   \* last second of the clock of SpecLimiter
MaxFriendships == 3 \* friendships rows inserted in one behaviour of SpecSocial
MaxResetRequests == 3   \* reset_password requests that carry the token in SpecReset
MaxResetClock == 30     \* last minute of the clock of SpecReset

\* users.daily_goal = Column(Integer, default=5)
DefaultDailyGoal == 5

Users == {"u1", "u2"}
Actors == {"u1"}    \* the users whose requests Spec follows
Statuses == {"applied", "interview", "offer"}
DailyGoals == {1, 2}    \* the configured values of users.daily_goal followed

VARIABLES
    today,           \* the calendar day of the system clock
    created,         \* number of job_applications rows inserted so far
    daily_goal,      \* users.daily_goal, per user
    apps,            \* job_applications
    streaks,         \* streaks
    achievements,    \* achievements
    newly_unlocked,  \* the list the latest step returned (<<>> if it returned none)
    evaluated,       \* the user the latest step evaluated, or "none"
    repeat,          \* the latest step evaluated that user again, nothing between
    timesReported,   \* per achievement row: how often a returned list held it
    response,        \* the motivation message of the latest response, or Null
    probe,           \* the arguments a direct call of the message selector is given
    req,             \* per request in flight: its place in the handler, its locals
    walk,            \* the locals of a running calculate_current_streak loop
    reset,           \* password_reset_tokens, users.hashed_password, reset requests
    jwt,             \* the tokens issued and the blacklist of SecureJWTHandler
    limiter,         \* the clock and the request_counts of SecurityMiddleware
    social           \* friendships

\* the tables and processes outside the job application handlers
ext == <<walk, reset, jwt, limiter, social>>

\* the tables, histories and locals of the job application handlers
core == <<today, created, daily_goal, apps, streaks, achievements, newly_unlocked,
          evaluated, repeat, timesReported, response, probe, req>>

vars == <<today, created, daily_goal, apps, streaks, achievements, newly_unlocked,
          evaluated, repeat, timesReported, response, probe, req,
          walk, reset, jwt, limiter, social>>

\* ------------------------------------------------------------- the catalog
ACHIEVEMENT_DEFINITIONS ==
    << [type |-> "application_count", value |-> 1],
       [type |-> "application_count", value |-> 5],
       [type |-> "application_count", value |-> 10],
       [type |-> "application_count", value |-> 25],
       [type |-> "application_count", value |-> 50],
       [type |-> "application_count", value |-> 100],
       [type |-> "application_count", value |-> 200],
       [type |-> "application_count", value |-> 500],
       [type |-> "streak", value |-> 1],
       [type |-> "streak", value |-> 3],
       [type |-> "streak", value |-> 7],
       [type |-> "streak", value |-> 14],
       [type |-> "streak", value |-> 30],
       [type |-> "streak", value |-> 60],
       [type |-> "streak", value |-> 100],
       [type |-> "interview_count", value |-> 1],
       [type |-> "interview_count", value |-> 5],
       [type |-> "interview_count", value |-> 10],
       [type |-> "consistency", value |-> 7],
       [type |-> "consistency", value |-> 30],
       [type |-> "offer_count", value |-> 1],
       [type |-> "offer_count", value |-> 3],
       [type |-> "daily_applications", value |-> 5],
       [type |-> "daily_applications", value |-> 10] >>

\* ------------------------------------------------------------------- time
\* A nullable DateTime column: <<>> is NULL, <<t>> holds the instant t.
Null == <<>>
Stamp(instant) == <<instant>>

\* ------------------------------------------------------ job_applications
\* SELECT count(id) FROM job_applications, over the rows the filter keeps
CountApps(apps_, kept) ==
    BagCardinality([r \in kept |-> apps_[r]])

TotalApplications(apps_, u) ==
    CountApps(apps_, {r \in DOMAIN apps_ : r.user_id = u})

TotalInterviews(apps_, u) ==
    CountApps(apps_, {r \in DOMAIN apps_ :
                        r.user_id = u /\ r.status \in {"interview", "offer"}})

TotalOffers(apps_, u) ==
    CountApps(apps_, {r \in DOMAIN apps_ : r.user_id = u /\ r.status = "offer"})

ApplicationsOn(apps_, u, day) ==
    CountApps(apps_, {r \in DOMAIN apps_ : r.user_id = u /\ r.applied_date = day})

\* ---------------------------------------------------------- streak service
SeqMin(S) == CHOOSE i \in S : \A j \in S : i <= j

\* (mutant) the query without its user_id filter
StreakRowsOf_AnyUser(streaks_, u, day) ==
    {i \in 1..Len(streaks_) : streaks_[i].date = day}

\* db.query(Streak).filter(user_id, date).first(): row positions that match
StreakRowsOf(streaks_, u, day) ==
    {i \in 1..Len(streaks_) : streaks_[i].user_id = u /\ streaks_[i].date = day}

\* (mutant) the stored count is incremented, as update_user_streak does
update_daily_streak_Increment(streaks_, apps_, u, goal, target_date) ==
    LET existing == StreakRowsOf(streaks_, u, target_date)
        applications_count ==
            IF existing # {} THEN streaks_[SeqMin(existing)].applications_count + 1
            ELSE 1
        goal_met == applications_count >= goal
    IN  IF existing # {}
        THEN [streaks_ EXCEPT ![SeqMin(existing)].applications_count = applications_count,
                              ![SeqMin(existing)].goal_met = goal_met]
        ELSE Append(streaks_, [user_id |-> u, date |-> target_date,
                               applications_count |-> applications_count,
                               goal_met |-> goal_met])

update_daily_streak(streaks_, apps_, u, goal, target_date) ==
    LET applications_count == ApplicationsOn(apps_, u, target_date)
        goal_met == applications_count >= goal
        existing == StreakRowsOf(streaks_, u, target_date)
    IN  IF existing # {}
        THEN [streaks_ EXCEPT ![SeqMin(existing)].applications_count = applications_count,
                              ![SeqMin(existing)].goal_met = goal_met]
        ELSE Append(streaks_, [user_id |-> u, date |-> target_date,
                               applications_count |-> applications_count,
                               goal_met |-> goal_met])

\* (mutant) the query without its user_id filter
MetRecord_AnyUser(streaks_, u, day) ==
    \E i \in 1..Len(streaks_) :
        streaks_[i].date = day /\ streaks_[i].goal_met

\* the query of the loop body: a row of the user for that day with goal_met
MetRecord(streaks_, u, day) ==
    \E i \in 1..Len(streaks_) :
        streaks_[i].user_id = u /\ streaks_[i].date = day /\ streaks_[i].goal_met

RECURSIVE StreakLoop(_, _, _, _)
StreakLoop(streaks_, u, current_date, streak_count) ==
    IF ~MetRecord(streaks_, u, current_date)
    THEN streak_count
    ELSE StreakLoop(streaks_, u, current_date - 1, streak_count + 1)

calculate_current_streak(streaks_, u, day) ==
    StreakLoop(streaks_, u, day, 0)

Max(a, b) == IF a >= b THEN a ELSE b

\* (mutant) a broken run restarts the count at 0 instead of 1
RECURSIVE LongestLoop_ResetZero(_, _, _, _, _)
LongestLoop_ResetZero(dates, i, prev_date, current, longest) ==
    IF i > Len(dates)
    THEN longest
    ELSE IF dates[i] = prev_date + 1
         THEN LongestLoop_ResetZero(dates, i + 1, dates[i], current + 1,
                                    Max(longest, current + 1))
         ELSE LongestLoop_ResetZero(dates, i + 1, dates[i], 0, longest)

\* (mutant) longest is updated before current is incremented
RECURSIVE LongestLoop_StaleMax(_, _, _, _, _)
LongestLoop_StaleMax(dates, i, prev_date, current, longest) ==
    IF i > Len(dates)
    THEN longest
    ELSE IF dates[i] = prev_date + 1
         THEN LongestLoop_StaleMax(dates, i + 1, dates[i], current + 1,
                                   Max(longest, current))
         ELSE LongestLoop_StaleMax(dates, i + 1, dates[i], 1, longest)

RECURSIVE LongestLoop(_, _, _, _, _)
LongestLoop(dates, i, prev_date, current, longest) ==
    IF i > Len(dates)
    THEN longest
    ELSE IF dates[i] = prev_date + 1
         THEN LongestLoop(dates, i + 1, dates[i], current + 1, Max(longest, current + 1))
         ELSE LongestLoop(dates, i + 1, dates[i], 1, longest)

calculate_longest_streak(streaks_, u) ==
    LET met == SelectSeq(streaks_, LAMBDA s : s.user_id = u /\ s.goal_met)
        dates == SortSeq([i \in 1..Len(met) |-> met[i].date], LAMBDA a, b : a < b)
    IN  IF Len(dates) = 0 THEN 0
        ELSE LongestLoop(dates, 2, dates[1], 1, 1)

\* (mutant) remaining is not clamped at 0
MotivationType_NoClamp(current_streak, today_apps, goal) ==
    IF current_streak = 0 /\ today_apps = 0
    THEN "start"
    ELSE IF current_streak = 0 /\ today_apps > 0
         THEN LET remaining == goal - today_apps
              IN  IF remaining = 0 THEN "goal_met" ELSE "progress"
         ELSE IF current_streak > 0 /\ today_apps < goal
              THEN "maintain_streak"
              ELSE "celebration"

\* the if/elif chain of get_motivation_message: type_msg
MotivationType(current_streak, today_apps, goal) ==
    IF current_streak = 0 /\ today_apps = 0
    THEN "start"
    ELSE IF current_streak = 0 /\ today_apps > 0
         THEN LET remaining == Max(0, goal - today_apps)
              IN  IF remaining = 0 THEN "goal_met" ELSE "progress"
         ELSE IF current_streak > 0 /\ today_apps < goal
              THEN "maintain_streak"
              ELSE "celebration"

\* the returned dict, without the message text
get_motivation_message(streaks_, apps_, u, goal, day) ==
    LET current_streak == calculate_current_streak(streaks_, u, day)
        today_apps == ApplicationsOn(apps_, u, day)
    IN  [type           |-> MotivationType(current_streak, today_apps, goal),
         current_streak |-> current_streak,
         today_progress |-> today_apps,
         daily_goal     |-> goal]

\* ----------------------------------------------------- achievement service
\* (mutant) the test against existing_types is dropped
initialize_user_achievements_NoCheck(ach, u) ==
    ach \o [k \in 1..Len(ACHIEVEMENT_DEFINITIONS) |->
               [user_id |-> u,
                achievement_type |-> ACHIEVEMENT_DEFINITIONS[k].type,
                criteria_value |-> ACHIEVEMENT_DEFINITIONS[k].value,
                unlocked |-> FALSE,
                unlocked_at |-> Null,
                current_progress |-> 0]]

initialize_user_achievements(ach, u) ==
    LET existing_types ==
            {<<ach[i].achievement_type, ach[i].criteria_value>> :
                i \in {j \in 1..Len(ach) : ach[j].user_id = u}}
        missing == SelectSeq(ACHIEVEMENT_DEFINITIONS,
                             LAMBDA d : <<d.type, d.value>> \notin existing_types)
    IN  ach \o [k \in 1..Len(missing) |->
                   [user_id |-> u,
                    achievement_type |-> missing[k].type,
                    criteria_value |-> missing[k].value,
                    unlocked |-> FALSE,
                    unlocked_at |-> Null,
                    current_progress |-> 0]]

\* the "current user stats" block of check_and_unlock_achievements
UserCounters(apps_, streaks_, u, day) ==
    [total_applications |-> TotalApplications(apps_, u),
     total_interviews   |-> TotalInterviews(apps_, u),
     total_offers       |-> TotalOffers(apps_, u),
     today_applications |-> ApplicationsOn(apps_, u, day),
     current_streak     |-> calculate_current_streak(streaks_, u, day)]

\* the if/elif chain: new_progress; no branch matches an unknown type
NewProgress(type, c) ==
    CASE type = "application_count"  -> c.total_applications
      [] type = "streak"             -> c.current_streak
      [] type = "interview_count"    -> c.total_interviews
      [] type = "offer_count"        -> c.total_offers
      [] type = "daily_applications" -> c.today_applications
      [] type = "consistency"        -> c.current_streak
      [] OTHER                       -> 0

KnownTypes == {"application_count", "streak", "interview_count", "offer_count",
               "daily_applications", "consistency"}

\* (mutant) the threshold is compared with the progress the row still stores
ShouldUnlock_Stale(row, c) ==
    row.achievement_type \in KnownTypes
        /\ row.current_progress >= row.criteria_value

\* (mutant) the threshold must be hit exactly
ShouldUnlock_Exact(row, c) ==
    row.achievement_type \in KnownTypes
        /\ NewProgress(row.achievement_type, c) = row.criteria_value

\* (mutant) the threshold must be exceeded, not reached
ShouldUnlock_Strict(row, c) ==
    row.achievement_type \in KnownTypes
        /\ NewProgress(row.achievement_type, c) > row.criteria_value

ShouldUnlock(row, c) ==
    row.achievement_type \in KnownTypes
        /\ NewProgress(row.achievement_type, c) >= row.criteria_value

\* (mutant) the query without its unlocked == False filter
LockedRowsOf_All(ach, u) ==
    {i \in 1..Len(ach) : ach[i].user_id = u}

\* the rows the evaluation loops over
LockedRowsOf(ach, u) ==
    {i \in 1..Len(ach) : ach[i].user_id = u /\ ~ach[i].unlocked}

\* (mutant) the unlock branch forgets achievement.unlocked = True
EvaluateRow_NoFlag(row, c, now) ==
    IF ShouldUnlock(row, c)
    THEN [row EXCEPT !.current_progress = NewProgress(row.achievement_type, c),
                     !.unlocked_at = Stamp(now)]
    ELSE [row EXCEPT !.current_progress = NewProgress(row.achievement_type, c)]

\* (mutant) the unlock branch forgets achievement.unlocked_at
EvaluateRow_NoStamp(row, c, now) ==
    IF ShouldUnlock(row, c)
    THEN [row EXCEPT !.current_progress = NewProgress(row.achievement_type, c),
                     !.unlocked = TRUE]
    ELSE [row EXCEPT !.current_progress = NewProgress(row.achievement_type, c)]

\* (mutant) progress is only written for rows that stay locked
EvaluateRow_SkipProgress(row, c, now) ==
    IF ShouldUnlock(row, c)
    THEN [row EXCEPT !.unlocked = TRUE,
                     !.unlocked_at = Stamp(now)]
    ELSE [row EXCEPT !.current_progress = NewProgress(row.achievement_type, c)]

\* the loop body, applied to one queried row
EvaluateRow(row, c, now) ==
    IF ShouldUnlock(row, c)
    THEN [row EXCEPT !.current_progress = NewProgress(row.achievement_type, c),
                     !.unlocked = TRUE,
                     !.unlocked_at = Stamp(now)]
    ELSE [row EXCEPT !.current_progress = NewProgress(row.achievement_type, c)]

\* (mutant) the unlocked flag of every row of the user is recomputed
check_and_unlock_achievements_Recompute(ach, apps_, streaks_, u, now) ==
    LET c == UserCounters(apps_, streaks_, u, now)
        mine == {i \in 1..Len(ach) : ach[i].user_id = u}
        ids == [i \in 1..Len(ach) |-> i]
    IN  [rows  |-> [i \in 1..Len(ach) |->
                       IF i \in mine
                       THEN [ach[i] EXCEPT
                               !.current_progress = NewProgress(ach[i].achievement_type, c),
                               !.unlocked = ShouldUnlock(ach[i], c),
                               !.unlocked_at = IF ShouldUnlock(ach[i], c)
                                               THEN (IF ach[i].unlocked THEN @ ELSE Stamp(now))
                                               ELSE Null]
                       ELSE ach[i]],
         newly |-> SelectSeq(ids, LAMBDA i : i \in LockedRowsOf(ach, u)
                                              /\ ShouldUnlock(ach[i], c))]

\* (mutant) progress is refreshed on every row of the user, unlocked or not
check_and_unlock_achievements_RefreshAll(ach, apps_, streaks_, u, now) ==
    LET c == UserCounters(apps_, streaks_, u, now)
        locked == LockedRowsOf(ach, u)
        ids == [i \in 1..Len(ach) |-> i]
    IN  [rows  |-> [i \in 1..Len(ach) |->
                       IF i \in locked THEN EvaluateRow(ach[i], c, now)
                       ELSE IF ach[i].user_id = u
                            THEN [ach[i] EXCEPT !.current_progress =
                                        NewProgress(ach[i].achievement_type, c)]
                            ELSE ach[i]],
         newly |-> SelectSeq(ids, LAMBDA i : i \in locked /\ ShouldUnlock(ach[i], c))]

\* rows: the table after db.commit(); newly: the returned list (row keys)
check_and_unlock_achievements(ach, apps_, streaks_, u, now) ==
    LET c == UserCounters(apps_, streaks_, u, now)
        locked == LockedRowsOf(ach, u)
        ids == [i \in 1..Len(ach) |-> i]
    IN  [rows  |-> [i \in 1..Len(ach) |->
                       IF i \in locked THEN EvaluateRow(ach[i], c, now) ELSE ach[i]],
         newly |-> SelectSeq(ids, LAMBDA i : i \in locked /\ ShouldUnlock(ach[i], c))]

\* get_achievement_progress: the entries of the locked rows of the user that
\* are at 80% or more (before the sort and the cut to five)
close_achievements(ach, u) ==
    LET ids == [i \in 1..Len(ach) |-> i]
        close == SelectSeq(ids, LAMBDA i :
                    /\ i \in LockedRowsOf(ach, u)
                    /\ ach[i].criteria_value > 0
                    /\ ach[i].current_progress * 100 >= 80 * ach[i].criteria_value)
    IN  [k \in 1..Len(close) |->
            [current_progress |-> ach[close[k]].current_progress,
             criteria_value   |-> ach[close[k]].criteria_value,
             remaining        |-> ach[close[k]].criteria_value
                                     - ach[close[k]].current_progress]]

\* history: count the rows of a returned list
Report(times, rows, newly) ==
    [i \in 1..Len(rows) |->
        (IF i <= Len(times) THEN times[i] ELSE 0)
        + Cardinality({k \in 1..Len(newly) : newly[k] = i})]

\* ---------------------------------------------------------------- actions
\* no direct call of the message selector, no request in flight
NoWalk == <<>>
NoReset == <<>>
NoJwt == <<>>
NoLimiter == <<>>
NoSocial == <<>>

\* nothing outside the job application handlers is followed
InitExt ==
    /\ walk = NoWalk
    /\ reset = NoReset
    /\ jwt = NoJwt
    /\ limiter = NoLimiter
    /\ social = NoSocial

NoProbe == <<>>
NoRequests == <<>>

InitTables ==
    /\ today = 0
    /\ created = 0
    /\ apps = EmptyBag
    /\ streaks = <<>>
    /\ achievements = <<>>
    /\ newly_unlocked = <<>>
    /\ evaluated = "none"
    /\ repeat = FALSE
    /\ timesReported = <<>>
    /\ response = Null

\* the acting user has a configured daily goal, the other the column default
Init ==
    /\ InitTables
    /\ probe = NoProbe
    /\ InitExt
    /\ req = NoRequests
    /\ daily_goal \in {g \in [Users -> DailyGoals \cup {DefaultDailyGoal}] :
                          /\ \A u \in Actors : g[u] \in DailyGoals
                          /\ \A u \in Users \ Actors : g[u] = DefaultDailyGoal}

\* every user has a configured daily goal
InitStreak ==
    /\ InitTables
    /\ probe = NoProbe
    /\ InitExt
    /\ req = NoRequests
    /\ daily_goal \in [Users -> DailyGoals]

\* midnight passes
DayRollover(lastDay) ==
    /\ today < lastDay
    /\ today' = today + 1
    /\ newly_unlocked' = <<>>
    /\ evaluated' = "none"
    /\ repeat' = FALSE
    /\ response' = Null
    /\ UNCHANGED <<created, daily_goal, apps, streaks, achievements, timesReported,
                   probe, req, ext>>

\* (mutant) the achievements are evaluated before the streak record is updated
CreateJobApplication_EvaluateFirst(u, st, maxApps) ==
    /\ created < maxApps
    /\ created' = created + 1
    /\ LET apps1 == apps (+) SetToBag({[user_id |-> u, applied_date |-> today, status |-> st]})
           ach1 == initialize_user_achievements(achievements, u)
           res == check_and_unlock_achievements(ach1, apps1, streaks, u, today)
           streaks1 == update_daily_streak(streaks, apps1, u, daily_goal[u], today)
       IN  /\ apps' = apps1
           /\ streaks' = streaks1
           /\ achievements' = res.rows
           /\ newly_unlocked' = res.newly
           /\ timesReported' = Report(timesReported, res.rows, res.newly)
           /\ response' = <<get_motivation_message(streaks1, apps1, u, daily_goal[u], today)>>
    /\ evaluated' = u
    /\ repeat' = FALSE
    /\ UNCHANGED <<today, daily_goal, probe, req, ext>>

\* (mutant) the motivation message is computed before the streak record is updated
CreateJobApplication_MessageFirst(u, st, maxApps) ==
    /\ created < maxApps
    /\ created' = created + 1
    /\ LET apps1 == apps (+) SetToBag({[user_id |-> u, applied_date |-> today, status |-> st]})
           streaks1 == update_daily_streak(streaks, apps1, u, daily_goal[u], today)
           ach1 == initialize_user_achievements(achievements, u)
           res == check_and_unlock_achievements(ach1, apps1, streaks1, u, today)
       IN  /\ apps' = apps1
           /\ streaks' = streaks1
           /\ achievements' = res.rows
           /\ newly_unlocked' = res.newly
           /\ timesReported' = Report(timesReported, res.rows, res.newly)
           /\ response' = <<get_motivation_message(streaks, apps1, u, daily_goal[u], today)>>
    /\ evaluated' = u
    /\ repeat' = FALSE
    /\ UNCHANGED <<today, daily_goal, probe, req, ext>>

\* POST /job-applications/
CreateJobApplication(u, st, maxApps) ==
    /\ created < maxApps
    /\ created' = created + 1
    /\ LET apps1 == apps (+) SetToBag({[user_id |-> u, applied_date |-> today, status |-> st]})
           streaks1 == update_daily_streak(streaks, apps1, u, daily_goal[u], today)
           ach1 == initialize_user_achievements(achievements, u)
           res == check_and_unlock_achievements(ach1, apps1, streaks1, u, today)
       IN  /\ apps' = apps1
           /\ streaks' = streaks1
           /\ achievements' = res.rows
           /\ newly_unlocked' = res.newly
           /\ timesReported' = Report(timesReported, res.rows, res.newly)
           /\ response' = <<get_motivation_message(streaks1, apps1, u, daily_goal[u], today)>>
    /\ evaluated' = u
    /\ repeat' = FALSE
    /\ UNCHANGED <<today, daily_goal, probe, req, ext>>

\* the application rows a request of user u can address
AppsOf(u) == {r \in BagToSet(apps) : r.user_id = u}

SetStatus(r, st) ==
    (apps (-) SetToBag({r})) (+) SetToBag({[r EXCEPT !.status = st]})

\* PUT /job-applications/{id}
UpdateJobApplication(u, st) ==
    /\ \E r \in AppsOf(u) : apps' = SetStatus(r, st)
    /\ newly_unlocked' = <<>>
    /\ evaluated' = "none"
    /\ repeat' = FALSE
    /\ response' = Null
    /\ UNCHANGED <<today, created, daily_goal, streaks, achievements, timesReported,
                   probe, req, ext>>

\* (mutant) the status change re-evaluates the achievements of the user
UpdateApplicationStatus_Reevaluate(u, st) ==
    /\ st \in Statuses
    /\ \E r \in AppsOf(u) :
          /\ apps' = SetStatus(r, st)
          /\ achievements' = check_and_unlock_achievements(
                                 achievements, SetStatus(r, st), streaks, u, today).rows
    /\ timesReported' = Report(timesReported, achievements', <<>>)
    /\ newly_unlocked' = <<>>
    /\ evaluated' = "none"
    /\ repeat' = FALSE
    /\ response' = Null
    /\ UNCHANGED <<today, created, daily_goal, streaks, probe, req, ext>>

\* PATCH /job-applications/{id}/status
UpdateApplicationStatus(u, st) ==
    /\ st \in Statuses
    /\ \E r \in AppsOf(u) : apps' = SetStatus(r, st)
    /\ newly_unlocked' = <<>>
    /\ evaluated' = "none"
    /\ repeat' = FALSE
    /\ response' = Null
    /\ UNCHANGED <<today, created, daily_goal, streaks, achievements, timesReported,
                   probe, req, ext>>

\* DELETE /job-applications/{id}
DeleteJobApplication(u) ==
    /\ \E r \in AppsOf(u) : apps' = apps (-) SetToBag({r})
    /\ newly_unlocked' = <<>>
    /\ evaluated' = "none"
    /\ repeat' = FALSE
    /\ response' = Null
    /\ UNCHANGED <<today, created, daily_goal, streaks, achievements, timesReported,
                   probe, req, ext>>

\* AchievementService.initialize_user_achievements called on its own
InitializeUserAchievements(u) ==
    /\ achievements' = initialize_user_achievements(achievements, u)
    /\ timesReported' = Report(timesReported, achievements', <<>>)
    /\ newly_unlocked' = <<>>
    /\ evaluated' = "none"
    /\ repeat' = FALSE
    /\ response' = Null
    /\ UNCHANGED <<today, created, daily_goal, apps, streaks, probe, req, ext>>

\* AchievementService.check_and_unlock_achievements called on its own
CheckAndUnlockAchievements(u) ==
    /\ LET res == check_and_unlock_achievements(achievements, apps, streaks, u, today)
       IN  /\ achievements' = res.rows
           /\ newly_unlocked' = res.newly
           /\ timesReported' = Report(timesReported, res.rows, res.newly)
    /\ evaluated' = u
    /\ repeat' = (evaluated = u)
    /\ response' = Null
    /\ UNCHANGED <<today, created, daily_goal, apps, streaks, probe, req, ext>>

Next ==
    \/ DayRollover(MaxDay)
    \/ \E u \in Actors, st \in Statuses : CreateJobApplication(u, st, MaxApps)
    \/ \E u \in Actors, st \in Statuses : UpdateJobApplication(u, st)
    \/ \E u \in Actors, st \in Statuses : UpdateApplicationStatus(u, st)
    \/ \E u \in Actors : DeleteJobApplication(u)
    \/ \E u \in Actors : InitializeUserAchievements(u)
    \/ \E u \in Actors : CheckAndUnlockAchievements(u)

Spec == Init /\ [][Next]_vars

\* Two users create (status "applied") and delete applications, over more days.
NextStreak ==
    \/ DayRollover(MaxStreakDay)
    \/ \E u \in Users : CreateJobApplication(u, "applied", MaxStreakApps)
    \/ \E u \in Users : DeleteJobApplication(u)

SpecStreak == InitStreak /\ [][NextStreak]_vars

\* One user applies up to MaxCloseApps times and is evaluated in between.
NextClose ==
    \/ DayRollover(MaxCloseDay)
    \/ \E u \in Actors : CreateJobApplication(u, "applied", MaxCloseApps)
    \/ \E u \in Actors : DeleteJobApplication(u)
    \/ \E u \in Actors : CheckAndUnlockAchievements(u)

SpecClose == Init /\ [][NextClose]_vars

\* The achievements table already holds a locked row whose achievement_type
\* the if/elif chain of the evaluation does not know ("interview" is one of
\* the types the column comment of models/achievement.py lists).
LegacyTypes == {"interview"}
LegacyProgress == {0, 3}

InitLegacy ==
    /\ today = 0
    /\ created = 0
    /\ apps = EmptyBag
    /\ streaks = <<>>
    /\ \E u \in Users, t \in LegacyTypes, p \in LegacyProgress :
          achievements = << [user_id |-> u, achievement_type |-> t,
                             criteria_value |-> 1, unlocked |-> FALSE,
                             unlocked_at |-> Null, current_progress |-> p] >>
    /\ newly_unlocked = <<>>
    /\ evaluated = "none"
    /\ repeat = FALSE
    /\ timesReported = <<0>>
    /\ response = Null
    /\ probe = NoProbe
    /\ InitExt
    /\ req = NoRequests
    /\ daily_goal \in [Users -> DailyGoals]

SpecLegacy == InitLegacy /\ [][NextStreak]_vars

\* ------------------------------------------------- requests in flight
\* POST /job-applications/ statement by statement.  Each request has its own
\* Session (get_db), nothing in the handler takes a lock and no table has a
\* unique constraint besides its primary key, so requests served by different
\* workers interleave between any two statements.  Every statement reads the
\* rows committed so far (READ COMMITTED); autoflush is off, so a Session
\* writes at db.commit(): an INSERT per added object, and per loaded object
\* an UPDATE, by primary key, of the columns whose value it has changed.
Requests == 1..MaxRequests

\* a row as a Session holds it: its primary key and the values it loaded
Loaded(table, i) == [id |-> i, row |-> table[i]]

\* the UPDATE of a flush: only the columns set to a new value are written
Flush(dbrow, loaded, new) ==
    [f \in DOMAIN dbrow |-> IF new[f] # loaded[f] THEN new[f] ELSE dbrow[f]]

NoCounters ==
    [total_applications |-> 0, total_interviews |-> 0, total_offers |-> 0,
     today_applications |-> 0, current_streak |-> 0]

\* a request that has been routed and authenticated, before its first statement
Arrived(u) ==
    [pc |-> "start", user |-> u,
     applications_count |-> 0,     \* update_daily_streak
     existing_streak |-> Null,
     existing_types |-> {},        \* initialize_user_achievements
     counters |-> NoCounters,      \* check_and_unlock_achievements
     locked |-> <<>>,
     newly_unlocked |-> <<>>]

InitRace ==
    /\ InitTables
    /\ probe = NoProbe
    /\ InitExt
    /\ daily_goal \in {g \in [Users -> DailyGoals \cup {DefaultDailyGoal}] :
                          /\ \A u \in Actors : g[u] \in DailyGoals
                          /\ \A u \in Users \ Actors : g[u] = DefaultDailyGoal}
    /\ req \in [Requests -> {Arrived(u) : u \in Actors}]

\* what a statement of a request leaves alone besides the tables
RaceFrame ==
    UNCHANGED <<today, daily_goal, newly_unlocked, evaluated, repeat, probe, ext>>

\* db.add(db_application); db.commit()
AddApplication(r) ==
    /\ req[r].pc = "start"
    /\ apps' = apps (+) SetToBag({[user_id |-> req[r].user, applied_date |-> today,
                                   status |-> "applied"]})
    /\ created' = created + 1
    /\ req' = [req EXCEPT ![r].pc = "count"]
    /\ UNCHANGED <<streaks, achievements, timesReported, response>>
    /\ RaceFrame

\* update_daily_streak: the count of the applications of today
CountToday(r) ==
    /\ req[r].pc = "count"
    /\ req' = [req EXCEPT ![r].applications_count =
                                ApplicationsOn(apps, req[r].user, today),
                          ![r].pc = "existing"]
    /\ UNCHANGED <<created, apps, streaks, achievements, timesReported, response>>
    /\ RaceFrame

\* update_daily_streak: existing_streak = db.query(Streak)...first()
FindStreak(r) ==
    /\ req[r].pc = "existing"
    /\ LET existing == StreakRowsOf(streaks, req[r].user, today)
       IN  req' = [req EXCEPT ![r].existing_streak =
                                  IF existing # {}
                                  THEN <<Loaded(streaks, SeqMin(existing))>>
                                  ELSE Null,
                              ![r].pc = "streak_commit"]
    /\ UNCHANGED <<created, apps, streaks, achievements, timesReported, response>>
    /\ RaceFrame

\* update_daily_streak: set or add the record, db.commit()
CommitStreak(r) ==
    /\ req[r].pc = "streak_commit"
    \* (the current streak it goes on to compute is dropped by the handler)
    /\ LET u == req[r].user
           applications_count == req[r].applications_count
           goal_met == applications_count >= daily_goal[u]
       IN  IF req[r].existing_streak # Null
           THEN LET held == req[r].existing_streak[1]
                    new == [held.row EXCEPT !.applications_count = applications_count,
                                            !.goal_met = goal_met]
                IN  streaks' = [streaks EXCEPT ![held.id] =
                                    Flush(streaks[held.id], held.row, new)]
           ELSE streaks' = Append(streaks, [user_id |-> u, date |-> today,
                                            applications_count |-> applications_count,
                                            goal_met |-> goal_met])
    /\ req' = [req EXCEPT ![r].pc = "init_read"]
    /\ UNCHANGED <<created, apps, achievements, timesReported, response>>
    /\ RaceFrame

\* initialize_user_achievements: existing_types
ReadAchievements(r) ==
    /\ req[r].pc = "init_read"
    /\ req' = [req EXCEPT ![r].existing_types =
                              {<<achievements[i].achievement_type,
                                 achievements[i].criteria_value>> :
                                  i \in {j \in 1..Len(achievements) :
                                            achievements[j].user_id = req[r].user}},
                          ![r].pc = "init_commit"]
    /\ UNCHANGED <<created, apps, streaks, achievements, timesReported, response>>
    /\ RaceFrame

\* initialize_user_achievements: add the missing rows, db.commit()
CommitAchievements(r) ==
    /\ req[r].pc = "init_commit"
    /\ LET missing == SelectSeq(ACHIEVEMENT_DEFINITIONS,
                                LAMBDA d : <<d.type, d.value>> \notin req[r].existing_types)
       IN  achievements' = achievements \o
               [k \in 1..Len(missing) |->
                   [user_id |-> req[r].user,
                    achievement_type |-> missing[k].type,
                    criteria_value |-> missing[k].value,
                    unlocked |-> FALSE,
                    unlocked_at |-> Null,
                    current_progress |-> 0]]
    /\ timesReported' = Report(timesReported, achievements', <<>>)
    /\ req' = [req EXCEPT ![r].pc = "total_applications"]
    /\ UNCHANGED <<created, apps, streaks, response>>
    /\ RaceFrame

\* check_and_unlock_achievements: the five statistics, one statement each
QueryTotalApplications(r) ==
    /\ req[r].pc = "total_applications"
    /\ req' = [req EXCEPT ![r].counters.total_applications =
                                TotalApplications(apps, req[r].user),
                          ![r].pc = "total_interviews"]
    /\ UNCHANGED <<created, apps, streaks, achievements, timesReported, response>>
    /\ RaceFrame

QueryTotalInterviews(r) ==
    /\ req[r].pc = "total_interviews"
    /\ req' = [req EXCEPT ![r].counters.total_interviews =
                                TotalInterviews(apps, req[r].user),
                          ![r].pc = "total_offers"]
    /\ UNCHANGED <<created, apps, streaks, achievements, timesReported, response>>
    /\ RaceFrame

QueryTotalOffers(r) ==
    /\ req[r].pc = "total_offers"
    /\ req' = [req EXCEPT ![r].counters.total_offers =
                                TotalOffers(apps, req[r].user),
                          ![r].pc = "today_applications"]
    /\ UNCHANGED <<created, apps, streaks, achievements, timesReported, response>>
    /\ RaceFrame

QueryTodayApplications(r) ==
    /\ req[r].pc = "today_applications"
    /\ req' = [req EXCEPT ![r].counters.today_applications =
                                ApplicationsOn(apps, req[r].user, today),
                          ![r].pc = "current_streak"]
    /\ UNCHANGED <<created, apps, streaks, achievements, timesReported, response>>
    /\ RaceFrame

QueryCurrentStreak(r) ==
    /\ req[r].pc = "current_streak"
    /\ req' = [req EXCEPT ![r].counters.current_streak =
                                calculate_current_streak(streaks, req[r].user, today),
                          ![r].pc = "locked"]
    /\ UNCHANGED <<created, apps, streaks, achievements, timesReported, response>>
    /\ RaceFrame

\* check_and_unlock_achievements: the rows with unlocked == False
QueryLocked(r) ==
    /\ req[r].pc = "locked"
    /\ LET ids == [i \in 1..Len(achievements) |-> i]
           locked == SelectSeq(ids, LAMBDA i : i \in LockedRowsOf(achievements, req[r].user))
       IN  req' = [req EXCEPT ![r].locked =
                                  [k \in 1..Len(locked) |-> Loaded(achievements, locked[k])],
                              ![r].pc = "check_commit"]
    /\ UNCHANGED <<created, apps, streaks, achievements, timesReported, response>>
    /\ RaceFrame

\* check_and_unlock_achievements: the loop over the loaded rows, db.commit()
CommitUnlocks(r) ==
    /\ req[r].pc = "check_commit"
    /\ LET held == req[r].locked
           c == req[r].counters
           at(i) == CHOOSE k \in 1..Len(held) : held[k].id = i
           newly == SelectSeq([k \in 1..Len(held) |-> held[k].id],
                              LAMBDA i : ShouldUnlock(held[at(i)].row, c))
       IN  /\ achievements' =
                  [i \in 1..Len(achievements) |->
                      IF \E k \in 1..Len(held) : held[k].id = i
                      THEN Flush(achievements[i], held[at(i)].row,
                                 EvaluateRow(held[at(i)].row, c, today))
                      ELSE achievements[i]]
           /\ req' = [req EXCEPT ![r].newly_unlocked = newly,
                                 ![r].pc = "respond"]
           /\ timesReported' = Report(timesReported, achievements', newly)
    /\ UNCHANGED <<created, apps, streaks, response>>
    /\ RaceFrame

\* the response: newly_unlocked_achievements and the motivation message
Respond(r) ==
    /\ req[r].pc = "respond"
    /\ response' = <<get_motivation_message(streaks, apps, req[r].user,
                                            daily_goal[req[r].user], today)>>
    /\ req' = [req EXCEPT ![r].pc = "done"]
    /\ UNCHANGED <<created, apps, streaks, achievements, timesReported>>
    /\ RaceFrame

NextRace ==
    \E r \in Requests :
        \/ AddApplication(r)
        \/ CountToday(r)
        \/ FindStreak(r)
        \/ CommitStreak(r)
        \/ ReadAchievements(r)
        \/ CommitAchievements(r)
        \/ QueryTotalApplications(r)
        \/ QueryTotalInterviews(r)
        \/ QueryTotalOffers(r)
        \/ QueryTodayApplications(r)
        \/ QueryCurrentStreak(r)
        \/ QueryLocked(r)
        \/ CommitUnlocks(r)
        \/ Respond(r)

SpecRace == InitRace /\ [][NextRace]_vars

\* The message selector on its own, for every triple of small arguments.
InitMotivation ==
    /\ InitTables
    /\ req = NoRequests
    /\ InitExt
    /\ daily_goal = [u \in Users |-> DefaultDailyGoal]
    /\ probe \in [current_streak : 0..MaxCount,
                   today_apps     : 0..MaxCount,
                   daily_goal     : 0..MaxCount]

\* the decision of get_motivation_message for the values it has queried
SelectMotivation ==
    /\ probe # NoProbe
    /\ response = Null
    /\ response' = <<[type |-> MotivationType(probe.current_streak, probe.today_apps,
                                               probe.daily_goal),
                      current_streak |-> probe.current_streak,
                      today_progress |-> probe.today_apps,
                      daily_goal     |-> probe.daily_goal]>>
    /\ UNCHANGED <<today, created, daily_goal, apps, streaks, achievements,
                   newly_unlocked, evaluated, repeat, timesReported, probe, req, ext>>

NextMotivation == SelectMotivation

SpecMotivation == InitMotivation /\ [][NextMotivation]_vars

\* --------------------------------- calculate_current_streak, step by step
WalkDays == 0..MaxWalkDay
WalkKinds == {"none", "unmet", "met"}

\* the streaks table that holds, per user and day, no record, a record with
\* goal_met false or a record with goal_met true
WalkTable(kind) ==
    LET n == MaxWalkDay + 1
        keys == [k \in 1..(2 * n) |->
                    [user_id |-> IF k <= n THEN "u1" ELSE "u2", date |-> (k - 1) % n]]
        kept == SelectSeq(keys, LAMBDA k : kind[k.user_id, k.date] # "none")
    IN  [i \in 1..Len(kept) |->
            [user_id |-> kept[i].user_id, date |-> kept[i].date,
             applications_count |-> IF kind[kept[i].user_id, kept[i].date] = "met"
                                    THEN 1 ELSE 0,
             goal_met |-> kind[kept[i].user_id, kept[i].date] = "met"]]

\* the call is entered: current_date = date.today(), streak_count = 0
InitWalk ==
    /\ today \in WalkDays
    /\ created = 0
    /\ apps = EmptyBag
    /\ \E kind \in [Users \X WalkDays -> WalkKinds] : streaks = WalkTable(kind)
    /\ achievements = <<>>
    /\ newly_unlocked = <<>>
    /\ evaluated = "none"
    /\ repeat = FALSE
    /\ timesReported = <<>>
    /\ response = Null
    /\ probe = NoProbe
    /\ req = NoRequests
    /\ daily_goal = [u \in Users |-> 1]
    /\ \E u \in Actors :
          walk = [user_id |-> u, current_date |-> today, streak_count |-> 0,
                  lookups |-> 0, returned |-> Null]
    /\ reset = NoReset
    /\ jwt = NoJwt
    /\ limiter = NoLimiter
    /\ social = NoSocial

\* (mutant) the loop counts the day and looks the same day up again
WalkFound_NoAdvance ==
    /\ walk # NoWalk
    /\ walk.returned = Null
    /\ MetRecord(streaks, walk.user_id, walk.current_date)
    /\ walk' = [walk EXCEPT !.streak_count = @ + 1, !.lookups = @ + 1]
    /\ UNCHANGED <<core, reset, jwt, limiter, social>>

\* one pass of the loop body whose query finds a record
WalkFound ==
    /\ walk # NoWalk
    /\ walk.returned = Null
    /\ MetRecord(streaks, walk.user_id, walk.current_date)
    /\ walk' = [walk EXCEPT !.streak_count = @ + 1, !.current_date = @ - 1,
                            !.lookups = @ + 1]
    /\ UNCHANGED <<core, reset, jwt, limiter, social>>

\* the pass whose query finds nothing: break, return streak_count
WalkBreak ==
    /\ walk # NoWalk
    /\ walk.returned = Null
    /\ ~MetRecord(streaks, walk.user_id, walk.current_date)
    /\ walk' = [walk EXCEPT !.lookups = @ + 1, !.returned = <<walk.streak_count>>]
    /\ UNCHANGED <<core, reset, jwt, limiter, social>>

NextWalk == WalkFound \/ WalkBreak

\* the loop is straight-line code of one coroutine that never awaits: once
\* entered it keeps taking its next step
SpecWalk == InitWalk /\ [][NextWalk]_vars /\ WF_vars(NextWalk)


\* ------------------------------------------------------- SecureJWTHandler
\* Time is counted in days. A token is its payload; its jti is its index in
\* jwt.tokens (secrets.token_hex(16) never repeats).

\* jwt_expiration_hours: int = 24
JwtExpirationDays == 1

\* jwt_refresh_expiration_days: int = 7
JwtRefreshExpirationDays == 7

TokenTypes == {"access", "refresh"}

\* SecureJWTHandler.__init__, and nothing issued yet
InitJwt ==
    /\ InitTables
    /\ probe = NoProbe
    /\ req = NoRequests
    /\ daily_goal = [u \in Users |-> DefaultDailyGoal]
    /\ walk = NoWalk
    /\ reset = NoReset
    /\ limiter = NoLimiter
    /\ social = NoSocial
    /\ jwt = [now |-> 0,
              tokens |-> <<>>,
              blacklisted_tokens |-> {},
              refresh_tokens |-> <<>>,
              revoked |-> {},
              revoked_all |-> {},
              swept |-> FALSE,
              last |-> Null]

JwtFrame == UNCHANGED <<core, walk, reset, limiter, social>>

\* the clock moves on by a day
JwtTick ==
    /\ jwt # NoJwt
    /\ jwt.now < MaxJwtDay
    /\ jwt' = [jwt EXCEPT !.now = @ + 1, !.last = Null]
    /\ JwtFrame

create_access_token(u) ==
    /\ jwt # NoJwt
    /\ Len(jwt.tokens) < MaxTokens
    /\ jwt' = [jwt EXCEPT
                 !.tokens = Append(@, [sub |-> u, token_type |-> "access",
                                       iat |-> jwt.now,
                                       exp |-> jwt.now + JwtExpirationDays]),
                 !.last = Null]
    /\ JwtFrame

\* refresh_tokens[jti] = {user_id, created_at, last_used}; last_used is never
\* read and is left out
create_refresh_token(u) ==
    /\ jwt # NoJwt
    /\ Len(jwt.tokens) < MaxTokens
    /\ LET jti == Len(jwt.tokens) + 1
       IN  jwt' = [jwt EXCEPT
                     !.tokens = Append(@, [sub |-> u, token_type |-> "refresh",
                                           iat |-> jwt.now,
                                           exp |-> jwt.now + JwtRefreshExpirationDays]),
                     !.refresh_tokens =
                         [j \in DOMAIN @ \cup {jti} |->
                             IF j = jti THEN [user_id |-> u, created_at |-> jwt.now]
                             ELSE @[j]],
                     !.last = Null]
    /\ JwtFrame

_is_token_blacklisted(j_, jti) == jti \in j_.blacklisted_tokens

\* verify_token returns the payload (TRUE) or raises 401 (FALSE)
verify_token(j_, jti, token_type) ==
    /\ ~_is_token_blacklisted(j_, jti)
    /\ j_.now < j_.tokens[jti].exp
    /\ j_.tokens[jti].token_type = token_type
    /\ token_type = "refresh" => jti \in DOMAIN j_.refresh_tokens

\* a client presents a token it was issued
VerifyToken(jti, token_type) ==
    /\ jwt # NoJwt
    /\ jti \in 1..Len(jwt.tokens)
    /\ jwt' = [jwt EXCEPT !.last = <<[jti |-> jti, token_type |-> token_type,
                                      accepted |-> verify_token(jwt, jti, token_type)]>>]
    /\ JwtFrame

\* the refresh_tokens store without some of its keys
Without(store, gone) == [j \in DOMAIN store \ gone |-> store[j]]

blacklist_token(jti) ==
    /\ jwt # NoJwt
    /\ jti \in 1..Len(jwt.tokens)
    /\ jwt' = [jwt EXCEPT
                 !.blacklisted_tokens = @ \cup {jti},
                 !.refresh_tokens =
                     IF jwt.tokens[jti].token_type = "refresh" /\ jti \in DOMAIN @
                     THEN Without(@, {jti}) ELSE @,
                 !.revoked = @ \cup {jti},
                 !.last = Null]
    /\ JwtFrame

revoke_all_user_tokens(u) ==
    /\ jwt # NoJwt
    /\ LET to_remove == {j \in DOMAIN jwt.refresh_tokens :
                             jwt.refresh_tokens[j].user_id = u}
       IN  jwt' = [jwt EXCEPT
                     !.blacklisted_tokens = @ \cup to_remove,
                     !.refresh_tokens = Without(@, to_remove),
                     !.revoked_all = @ \cup {j \in 1..Len(jwt.tokens) :
                                                jwt.tokens[j].sub = u},
                     !.last = Null]
    /\ JwtFrame

\* (mutant) the sweep drops the blacklist entries with the expired tokens
cleanup_expired_tokens_ClearBlacklist ==
    /\ jwt # NoJwt
    /\ LET expired == {j \in DOMAIN jwt.refresh_tokens :
                           jwt.now - jwt.refresh_tokens[j].created_at
                               > JwtRefreshExpirationDays}
       IN  jwt' = [jwt EXCEPT
                     !.refresh_tokens = Without(@, expired),
                     !.blacklisted_tokens = IF expired # {} THEN {} ELSE @,
                     !.swept = @ \/ expired # {},
                     !.last = Null]
    /\ JwtFrame

\* the hourly sweep of main.py
cleanup_expired_tokens ==
    /\ jwt # NoJwt
    /\ LET expired == {j \in DOMAIN jwt.refresh_tokens :
                           jwt.now - jwt.refresh_tokens[j].created_at
                               > JwtRefreshExpirationDays}
       IN  jwt' = [jwt EXCEPT
                     !.refresh_tokens = Without(@, expired),
                     !.blacklisted_tokens = @ \ expired,
                     !.swept = @ \/ expired # {},
                     !.last = Null]
    /\ JwtFrame

NextJwt ==
    \/ JwtTick
    \/ \E u \in Users : create_access_token(u)
    \/ \E u \in Users : create_refresh_token(u)
    \/ \E jti \in 1..MaxTokens, t \in TokenTypes : VerifyToken(jti, t)
    \/ \E jti \in 1..MaxTokens : blacklist_token(jti)
    \/ \E u \in Users : revoke_all_user_tokens(u)
    \/ cleanup_expired_tokens

SpecJwt == InitJwt /\ [][NextJwt]_vars


\* ----------------------------------- SecurityMiddleware.is_rate_limited
\* Time is counted in seconds; the clock is read every TickSeconds seconds.
\* A path is the sequence of its segments: /api/auth/login is
\* <<"api", "auth", "login">>.
TickSeconds == 30

\* if current_time - timestamp < 60
RateWindow == 60

LoginLimit == 5
AuthLimit == 10
GeneralLimit == 100

Ips == {"ip1", "ip2"}
Endpoints == {<<"api", "auth", "login">>, <<"api", "auth", "register">>,
              <<"api", "job-applications">>}
BatchSizes == {4, 64}    \* requests one client sends back to back

\* endpoint.startswith(prefix), for a prefix that ends at a segment boundary
StartsWith(endpoint, prefix) ==
    /\ Len(endpoint) >= Len(prefix)
    /\ SubSeq(endpoint, 1, Len(prefix)) = prefix

\* the limit chain of is_rate_limited; "/api/auth/" ends with a slash, so a
\* further segment has to follow
LimitOf(endpoint) ==
    IF StartsWith(endpoint, <<"api", "auth", "login">>) THEN LoginLimit
    ELSE IF StartsWith(endpoint, <<"api", "auth">>) /\ Len(endpoint) > 2 THEN AuthLimit
    ELSE GeneralLimit

\* (mutant) the limit itself is still admitted
is_rate_limited_OffByOne(storage, current_time, ip, endpoint) ==
    LET key == <<ip, endpoint>>
        recent == SelectSeq(storage[key], LAMBDA timestamp :
                                current_time - timestamp < RateWindow)
    IN  IF Len(recent) > LimitOf(endpoint)
        THEN [storage |-> [storage EXCEPT ![key] = recent], limited |-> TRUE]
        ELSE [storage |-> [storage EXCEPT ![key] = Append(recent, current_time)],
              limited |-> FALSE]

\* is_rate_limited: the storage it leaves and the value it returns
is_rate_limited(storage, current_time, ip, endpoint) ==
    LET key == <<ip, endpoint>>
        recent == SelectSeq(storage[key], LAMBDA timestamp :
                                current_time - timestamp < RateWindow)
    IN  IF Len(recent) >= LimitOf(endpoint)
        THEN [storage |-> [storage EXCEPT ![key] = recent], limited |-> TRUE]
        ELSE [storage |-> [storage EXCEPT ![key] = Append(recent, current_time)],
              limited |-> FALSE]

\* SecurityMiddleware.__init__; the clients call one endpoint
InitLimiter ==
    /\ InitTables
    /\ probe = NoProbe
    /\ req = NoRequests
    /\ daily_goal = [u \in Users |-> DefaultDailyGoal]
    /\ walk = NoWalk
    /\ reset = NoReset
    /\ jwt = NoJwt
    /\ social = NoSocial
    /\ \E e \in Endpoints :
          limiter = [now |-> 0,
                     endpoint |-> e,
                     rate_limit_storage |-> [k \in Ips \X Endpoints |-> <<>>],
                     batches |-> 0,
                     pending |-> Null,
                     admitted |-> [ip \in Ips |-> <<>>],
                     rejected |-> [ip \in Ips |-> 0],
                     last |-> Null]

LimiterFrame == UNCHANGED <<core, walk, reset, jwt, social>>

LimiterTick ==
    /\ limiter # NoLimiter
    /\ limiter.pending = Null
    /\ limiter.now + TickSeconds <= MaxLimiterClock
    /\ limiter' = [limiter EXCEPT !.now = @ + TickSeconds, !.last = Null]
    /\ LimiterFrame

\* dispatch up to its rate limiting step, for one request of the client:
\* what the call of is_rate_limited leaves behind
Limited(ip, left, batches) ==
    LET res == is_rate_limited(limiter.rate_limit_storage, limiter.now, ip,
                               limiter.endpoint)
    IN  limiter' = [limiter EXCEPT
                      !.rate_limit_storage = res.storage,
                      !.batches = batches,
                      !.pending = IF left = 0 THEN Null
                                  ELSE <<[ip |-> ip, left |-> left]>>,
                      !.admitted[ip] = IF res.limited THEN @ ELSE Append(@, limiter.now),
                      !.rejected[ip] = IF res.limited THEN @ + 1 ELSE @,
                      !.last = <<[ip |-> ip, admitted |-> ~res.limited]>>]

\* the first request of a batch of n that a client sends back to back
Dispatch(ip, n) ==
    /\ limiter # NoLimiter
    /\ limiter.pending = Null
    /\ limiter.batches < MaxBatches
    /\ Limited(ip, n - 1, limiter.batches + 1)
    /\ LimiterFrame

\* the next request of the batch, in the same instant
DispatchNext ==
    /\ limiter # NoLimiter
    /\ limiter.pending # Null
    /\ Limited(limiter.pending[1].ip, limiter.pending[1].left - 1, limiter.batches)
    /\ LimiterFrame

NextLimiter ==
    \/ LimiterTick
    \/ \E ip \in Ips, n \in BatchSizes : Dispatch(ip, n)
    \/ DispatchNext

SpecLimiter == InitLimiter /\ [][NextLimiter]_vars


\* ------------------------------------------------------------ friendships
\* social.friendships is the table (a deleted row leaves it), social.inserted
\* counts the rows ever inserted, social.last is what the latest handler did.
People == {"u1", "u2", "u3"}

InitSocial ==
    /\ InitTables
    /\ probe = NoProbe
    /\ req = NoRequests
    /\ daily_goal = [u \in Users |-> DefaultDailyGoal]
    /\ walk = NoWalk
    /\ reset = NoReset
    /\ jwt = NoJwt
    /\ limiter = NoLimiter
    /\ social = [friendships |-> <<>>, inserted |-> 0, last |-> Null]

SocialFrame == UNCHANGED <<core, walk, reset, jwt, limiter>>

\* the rows between two users, in either direction
Between(friendships, a, b) ==
    {i \in 1..Len(friendships) :
        \/ friendships[i].requester_id = a /\ friendships[i].addressee_id = b
        \/ friendships[i].requester_id = b /\ friendships[i].addressee_id = a}

\* a sequence without its i-th element
Remove(seq, i) == SubSeq(seq, 1, i - 1) \o SubSeq(seq, i + 1, Len(seq))

\* the row is inserted: no row between the two exists, or the row that
\* .first() returned (the query has no ORDER BY: any of them) is DECLINED
Insert(current_user, target) ==
    /\ social.inserted < MaxFriendships
    /\ social' = [social EXCEPT
                    !.friendships = Append(@, [requester_id |-> current_user,
                                               addressee_id |-> target,
                                               status |-> "pending"]),
                    !.inserted = @ + 1,
                    !.last = <<[by |-> current_user, did |-> "send",
                                requester_id |-> current_user,
                                addressee_id |-> target]>>]

\* POST /friend-request
send_friend_request(current_user, target) ==
    /\ social # NoSocial
    /\ target # current_user
    /\ LET existing == Between(social.friendships, current_user, target)
       IN  \/ existing = {} /\ Insert(current_user, target)
           \/ \E existing_friendship \in existing :
                 /\ social.friendships[existing_friendship].status
                        \notin {"accepted", "pending", "blocked"}
                 /\ Insert(current_user, target)
    /\ SocialFrame

\* POST /friend-request/{friendship_id}/accept
accept_friend_request(current_user, friendship_id) ==
    /\ social # NoSocial
    /\ friendship_id \in 1..Len(social.friendships)
    /\ social.friendships[friendship_id].addressee_id = current_user
    /\ social.friendships[friendship_id].status = "pending"
    /\ social' = [social EXCEPT
                    !.friendships[friendship_id].status = "accepted",
                    !.last = <<[by |-> current_user, did |-> "accept",
                                requester_id |-> social.friendships[friendship_id].requester_id,
                                addressee_id |-> social.friendships[friendship_id].addressee_id]>>]
    /\ SocialFrame

\* POST /friend-request/{friendship_id}/decline
decline_friend_request(current_user, friendship_id) ==
    /\ social # NoSocial
    /\ friendship_id \in 1..Len(social.friendships)
    /\ social.friendships[friendship_id].addressee_id = current_user
    /\ social.friendships[friendship_id].status = "pending"
    /\ social' = [social EXCEPT
                    !.friendships[friendship_id].status = "declined",
                    !.last = <<[by |-> current_user, did |-> "decline",
                                requester_id |-> social.friendships[friendship_id].requester_id,
                                addressee_id |-> social.friendships[friendship_id].addressee_id]>>]
    /\ SocialFrame

\* DELETE /friend/{user_id}
remove_friend(current_user, user_id) ==
    /\ social # NoSocial
    /\ \E friendship \in Between(social.friendships, current_user, user_id) :
          /\ social.friendships[friendship].status = "accepted"
          /\ social' = [social EXCEPT
                          !.friendships = Remove(@, friendship),
                          !.last = <<[by |-> current_user, did |-> "remove",
                                      requester_id |-> social.friendships[friendship].requester_id,
                                      addressee_id |-> social.friendships[friendship].addressee_id]>>]
    /\ SocialFrame

NextSocial ==
    \/ \E a, b \in People : send_friend_request(a, b)
    \/ \E a \in People, id \in 1..MaxFriendships : accept_friend_request(a, id)
    \/ \E a \in People, id \in 1..MaxFriendships : decline_friend_request(a, id)
    \/ \E a, b \in People : remove_friend(a, b)

SpecSocial == InitSocial /\ [][NextSocial]_vars


\* --------------------------------------------------------- password reset
\* Time is counted in minutes. One reset token has been created at minute 0
\* and mailed; reset_password requests that carry it are served by worker
\* processes that share the database and interleave at its statements.

\* expires_at = now + timedelta(minutes=15)
TokenExpiryMinutes == 15

ResetTickMinutes == 15

ResetRequests == 1..MaxResetRequests

\* PasswordResetToken.is_valid, on the values a session holds for the row
is_valid(token, now) ==
    ~(now > token.expires_at) /\ token.used_at = Null

\* the state create_reset_token leaves: an unused token of the user
InitReset ==
    /\ InitTables
    /\ probe = NoProbe
    /\ req = NoRequests
    /\ daily_goal = [u \in Users |-> DefaultDailyGoal]
    /\ walk = NoWalk
    /\ jwt = NoJwt
    /\ limiter = NoLimiter
    /\ social = NoSocial
    /\ reset = [now |-> 0,
                token |-> [expires_at |-> TokenExpiryMinutes, used_at |-> Null],
                hashed_password |-> 0,    \* r: the hash request r has sent
                changed |-> <<>>,
                requests |-> [r \in ResetRequests |->
                                 [pc |-> "start", reset_token |-> Null,
                                  spent |-> FALSE]]]

ResetFrame == UNCHANGED <<core, walk, jwt, limiter, social>>

ResetTick ==
    /\ reset # NoReset
    /\ reset.now + ResetTickMinutes <= MaxResetClock
    /\ reset' = [reset EXCEPT !.now = @ + ResetTickMinutes]
    /\ ResetFrame

\* reset_password up to its first commit: verify_reset_token loads the token
\* row into the session of the request and answers 400 if it is not valid
VerifyResetToken(r) ==
    /\ reset # NoReset
    /\ reset.requests[r].pc = "start"
    /\ reset' = [reset EXCEPT
                   !.requests[r].reset_token = <<reset.token>>,
                   !.requests[r].spent = ~is_valid(reset.token, reset.now),
                   !.requests[r].pc = IF is_valid(reset.token, reset.now)
                                      THEN "verified" ELSE "rejected"]
    /\ ResetFrame

\* the rest of reset_password: the new hash is set on the user, use_reset_token
\* finds the token row in the session (its attributes are the loaded ones: no
\* commit has expired them), marks it used if those are valid, and commits;
\* the commit writes the user row too, whatever use_reset_token returned
ResetPassword(r) ==
    /\ reset # NoReset
    /\ reset.requests[r].pc = "verified"
    /\ reset' = [reset EXCEPT
                   !.token.used_at =
                       IF is_valid(reset.requests[r].reset_token[1], reset.now)
                       THEN <<reset.now>> ELSE @,
                   !.hashed_password = r,
                   !.changed = Append(@, r),
                   !.requests[r].pc = "done"]
    /\ ResetFrame

NextReset ==
    \/ ResetTick
    \/ \E r \in ResetRequests : VerifyResetToken(r)
    \/ \E r \in ResetRequests : ResetPassword(r)

SpecReset == InitReset /\ [][NextReset]_vars


\* ------------------------------------------------------------ properties
\* the user has a streak record of that day whose goal_met is true
GoalMetOn(u, day) ==
    \E i \in 1..Len(streaks) :
        /\ streaks[i].user_id = u
        /\ streaks[i].date = day
        /\ streaks[i].goal_met = TRUE

\* the values of `today` the streak claims are stated for
ProbeDays == (0 - 1)..(today + 1)

\* C1: for every record set and every today, calculate_current_streak is the
\* number k such that each of today, today-1, ..., today-k+1 has a record with
\* goal_met and today-k has none (0 when today has none).
C1_CurrentStreak ==
    \A u \in Users, d \in ProbeDays :
        LET k == calculate_current_streak(streaks, u, d)
        IN  /\ k \in Nat
            /\ \A j \in 0..(k - 1) : GoalMetOn(u, d - j)
            /\ ~GoalMetOn(u, d - k)

\* the spec's scenario: days 0 and 1 met, day 2 missing, day 3 met, today = 3
C1_Witness ==
    \E u \in Users :
        /\ today = 3
        /\ GoalMetOn(u, 0) /\ GoalMetOn(u, 1) /\ GoalMetOn(u, 3)
        /\ StreakRowsOf(streaks, u, 2) = {}
        /\ calculate_current_streak(streaks, u, today) = 1

\* the runs of consecutive days that all have a met record
MetRuns(u) ==
    {r \in (0..today) \X (0..today) :
        r[1] <= r[2] /\ \A d \in r[1]..r[2] : GoalMetOn(u, d)}

\* C2: calculate_longest_streak is the length of the longest run of met dates
\* each one day after the previous; 0 when no record is met, 1 when every
\* met day is isolated.
C2_LongestStreak ==
    \A u \in Users :
        LET longest == calculate_longest_streak(streaks, u)
        IN  /\ \A r \in MetRuns(u) : r[2] - r[1] + 1 <= longest
            /\ IF MetRuns(u) = {}
               THEN longest = 0
               ELSE \E r \in MetRuns(u) : r[2] - r[1] + 1 = longest

\* a run of two met days follows an isolated met day
C2_Witness ==
    \E u \in Users :
        /\ GoalMetOn(u, 0) /\ ~GoalMetOn(u, 1) /\ GoalMetOn(u, 2) /\ GoalMetOn(u, 3)
        /\ calculate_longest_streak(streaks, u) = 2

\* C3: streak contiguity law: in every reachable state, for every user and
\* every today, calculate_longest_streak >= calculate_current_streak.
C3_Contiguity ==
    \A u \in Users, d \in ProbeDays :
        calculate_longest_streak(streaks, u) >= calculate_current_streak(streaks, u, d)

\* the longest streak lies in the past: longest 2, current 1
C3_Witness ==
    \E u \in Users :
        /\ calculate_current_streak(streaks, u, today) = 1
        /\ calculate_longest_streak(streaks, u) = 2

\* the live counter an achievement type is measured by
LiveCounterOf(type, u, apps_, streaks_, day) ==
    CASE type = "application_count"  -> TotalApplications(apps_, u)
      [] type = "streak"             -> calculate_current_streak(streaks_, u, day)
      [] type = "consistency"        -> calculate_current_streak(streaks_, u, day)
      [] type = "interview_count"    -> TotalInterviews(apps_, u)
      [] type = "offer_count"        -> TotalOffers(apps_, u)
      [] type = "daily_applications" -> ApplicationsOn(apps_, u, day)

LiveCounter(type, u) == LiveCounterOf(type, u, apps, streaks, today)

InList(i, list) == \E k \in 1..Len(list) : list[k] = i

\* C4: an evaluation sets current_progress of every locked row of the user to
\* the live counter of its type, and unlocks the row and returns it in
\* newly_unlocked exactly when that counter >= criteria_value.
C4_Evaluation ==
    [][\A u \in Users : evaluated' = u =>
          \A i \in 1..Len(achievements') :
              ( /\ achievements'[i].user_id = u
                /\ (i > Len(achievements) \/ ~achievements[i].unlocked) )
              => LET row == achievements'[i]
                     counter == LiveCounterOf(row.achievement_type, u,
                                              apps', streaks', today')
                 IN  /\ row.current_progress = counter
                     /\ row.unlocked <=> (counter >= row.criteria_value)
                     /\ InList(i, newly_unlocked') <=> (counter >= row.criteria_value)
      ]_vars

\* two rows of one type unlocked in the same pass, with the same progress
C4_Witness ==
    \E i, j \in 1..Len(achievements) :
        /\ InList(i, newly_unlocked) /\ InList(j, newly_unlocked)
        /\ achievements[i].achievement_type = achievements[j].achievement_type
        /\ achievements[i].criteria_value < achievements[j].criteria_value
        /\ achievements[i].unlocked /\ achievements[j].unlocked
        /\ achievements[i].current_progress = achievements[j].current_progress

\* C5: monotonic unlock: a row that is unlocked stays unlocked in every later
\* state.
C5_MonotonicUnlock ==
    [][\A i \in 1..Len(achievements) :
          achievements[i].unlocked
          => (i <= Len(achievements') /\ achievements'[i].unlocked)
      ]_vars

\* a row unlocked on day 0 is still unlocked after an evaluation on day 1
C5_Witness ==
    \E i \in 1..Len(achievements) :
        /\ achievements[i].unlocked
        /\ achievements[i].unlocked_at = Stamp(0)
        /\ today = 1
        /\ evaluated = achievements[i].user_id

\* C6: idempotent evaluation: an evaluation that directly follows an
\* evaluation of the same user returns an empty list, and no row is ever
\* returned in newly_unlocked more than once.
C6_Idempotent ==
    /\ \A i \in 1..Len(timesReported) : timesReported[i] <= 1
    /\ repeat => newly_unlocked = <<>>

\* a second evaluation in a row, of a user a row of whom was reported today
C6_Witness ==
    /\ repeat
    /\ \E i \in 1..Len(achievements) :
          /\ achievements[i].user_id = evaluated
          /\ achievements[i].unlocked_at = Stamp(today)
          /\ timesReported[i] = 1

\* C7: a row that is unlocked before a step has the same current_progress,
\* unlocked and unlocked_at after it, whatever the counters are.
C7_UnlockedUntouched ==
    [][\A i \in 1..Len(achievements) :
          achievements[i].unlocked
          => (i <= Len(achievements') /\ achievements'[i] = achievements[i])
      ]_vars

\* an evaluation has just passed over a row unlocked earlier whose stored
\* progress differs from the live counter
C7_Witness ==
    \E i \in 1..Len(achievements) :
        /\ evaluated = achievements[i].user_id
        /\ achievements[i].unlocked
        /\ ~InList(i, newly_unlocked)
        /\ achievements[i].current_progress
              # LiveCounter(achievements[i].achievement_type, achievements[i].user_id)

\* C8: every unlocked row has current_progress >= criteria_value.
C8_UnlockedReached ==
    \A i \in 1..Len(achievements) :
        achievements[i].unlocked
        => achievements[i].current_progress >= achievements[i].criteria_value

\* an unlocked row whose live counter has fallen below the threshold again
C8_Witness ==
    \E i \in 1..Len(achievements) :
        /\ achievements[i].unlocked
        /\ LiveCounter(achievements[i].achievement_type, achievements[i].user_id)
              < achievements[i].criteria_value

\* unlocked_at is set exactly on the unlocked rows
StampedIffUnlocked(ach) ==
    \A i \in 1..Len(ach) : (ach[i].unlocked_at # Null) <=> ach[i].unlocked

\* C9: unlocked_at is non-null exactly on the unlocked rows, and once set it
\* never changes.
C9_UnlockedAtOnce ==
    [][/\ StampedIffUnlocked(achievements)
       /\ StampedIffUnlocked(achievements')
       /\ \A i \in 1..Len(achievements) :
              achievements[i].unlocked_at # Null
              => ( /\ i <= Len(achievements')
                   /\ achievements'[i].unlocked_at = achievements[i].unlocked_at )
      ]_vars

\* a row stamped on day 0 keeps its stamp through an evaluation on day 1
C9_Witness ==
    \E i \in 1..Len(achievements) :
        /\ achievements[i].unlocked_at = Stamp(0)
        /\ today = 1
        /\ evaluated = achievements[i].user_id
        /\ newly_unlocked # <<>>

\* C10 (as claimed): current_progress after an evaluation is never lower than
\* before it.
C10_ProgressNeverDrops ==
    [][\A u \in Users : evaluated' = u =>
          \A i \in 1..Len(achievements) :
              achievements[i].user_id = u
              => achievements'[i].current_progress >= achievements[i].current_progress
      ]_vars

\* C10 (amended): current_progress after an evaluation is lower than before it
\* only on a row that was locked and whose live counter has fallen below the
\* stored progress; the row then holds that live counter.
C10_ProgressFollowsCounter ==
    [][\A u \in Users : evaluated' = u =>
          \A i \in 1..Len(achievements) :
              achievements[i].user_id = u
              => \/ achievements'[i].current_progress >= achievements[i].current_progress
                 \/ /\ ~achievements[i].unlocked
                    /\ achievements'[i].current_progress
                          = LiveCounter(achievements[i].achievement_type, u)'
      ]_vars

\* day 0 ended with two applications (the daily_applications rows then held
\* 2); after an evaluation on day 1 a daily_applications row holds less
C10_Witness ==
    \E i \in 1..Len(achievements), s \in 1..Len(streaks) :
        /\ today = 1
        /\ evaluated = achievements[i].user_id
        /\ streaks[s].user_id = achievements[i].user_id
        /\ streaks[s].date = 0
        /\ streaks[s].applications_count = 2
        /\ achievements[i].achievement_type = "daily_applications"
        /\ achievements[i].current_progress < 2

MessageTypes == {"start", "progress", "goal_met", "maintain_streak", "celebration"}

\* C16: get_motivation_message is a total decision table: for every
\* (current_streak, today_apps, daily_goal) of non-negative integers the type is
\* start if streak = 0 and today = 0; progress if streak = 0, today > 0 and
\* today < goal; goal_met if streak = 0, today > 0 and today >= goal;
\* maintain_streak if streak > 0 and today < goal; celebration if streak > 0
\* and today >= goal.
C16_DecisionTable ==
    (probe # NoProbe /\ response # Null) =>
        LET s == probe.current_streak
            t == probe.today_apps
            g == probe.daily_goal
            type == response[1].type
        IN  /\ type \in MessageTypes
            /\ type = "start"           <=> (s = 0 /\ t = 0)
            /\ type = "progress"        <=> (s = 0 /\ t > 0 /\ t < g)
            /\ type = "goal_met"        <=> (s = 0 /\ t > 0 /\ t >= g)
            /\ type = "maintain_streak" <=> (s > 0 /\ t < g)
            /\ type = "celebration"     <=> (s > 0 /\ t >= g)

\* the spec's scenario: daily_goal = 5, today_applications = 5, streak 0
C16_Witness ==
    /\ probe # NoProbe
    /\ response # Null
    /\ probe.current_streak = 0 /\ probe.today_apps = 5 /\ probe.daily_goal = 5
    /\ response[1].type = "goal_met"

\* C11: in every reachable state, interleaved create_job_application requests
\* of one user included, there is at most one streak record per (user_id, date).
C11_OneRecordPerDay ==
    \A u \in Users, d \in 0..today :
        Cardinality(StreakRowsOf(streaks, u, d)) <= 1

\* C12: no double-fired unlock: of two create_job_application requests of one
\* user running together, at most one returns a given achievement row in
\* newly_unlocked.
C12_NoDoubleFire ==
    \A r1, r2 \in DOMAIN req :
        r1 # r2 =>
            \A i \in 1..Len(achievements) :
                ~(InList(i, req[r1].newly_unlocked) /\ InList(i, req[r2].newly_unlocked))

\* every request in flight has sent its response
AllDone == \A r \in DOMAIN req : req[r].pc = "done"

\* C13: no lost update on the daily count: after two create_job_application
\* requests of one user on one day have both completed, today's streak record
\* has applications_count equal to the number of that user's applications
\* dated today and goal_met equal to (applications_count >= daily_goal).
C13_NoLostUpdate ==
    (req # NoRequests /\ AllDone) =>
        \A r \in DOMAIN req :
            LET u == req[r].user
            IN  /\ StreakRowsOf(streaks, u, today) # {}
                /\ \A i \in StreakRowsOf(streaks, u, today) :
                       /\ streaks[i].applications_count = ApplicationsOn(apps, u, today)
                       /\ streaks[i].goal_met
                             = (streaks[i].applications_count >= daily_goal[u])

\* C15: one progress row per catalog rule: in every reachable state,
\* interleaved initialize_user_achievements calls of one user included, each
\* user has at most one achievement row per (achievement_type,
\* criteria_value), and no two catalog definitions share (type, value).
C15_OneRowPerRule ==
    /\ \A i, j \in 1..Len(achievements) :
          ( /\ achievements[i].user_id = achievements[j].user_id
            /\ achievements[i].achievement_type = achievements[j].achievement_type
            /\ achievements[i].criteria_value = achievements[j].criteria_value )
          => i = j
    /\ \A i, j \in 1..Len(ACHIEVEMENT_DEFINITIONS) :
          ( /\ ACHIEVEMENT_DEFINITIONS[i].type = ACHIEVEMENT_DEFINITIONS[j].type
            /\ ACHIEVEMENT_DEFINITIONS[i].value = ACHIEVEMENT_DEFINITIONS[j].value )
          => i = j

\* the keys of the achievement rows of a user
RowsOf(ach, u) == {i \in 1..Len(ach) : ach[i].user_id = u}

\* the rows are those of one pass over the catalog: one per definition
OnePerDefinition(ach, rows) ==
    /\ Cardinality(rows) = Len(ACHIEVEMENT_DEFINITIONS)
    /\ \A k \in 1..Len(ACHIEVEMENT_DEFINITIONS) :
          \E i \in rows :
              /\ ach[i].achievement_type = ACHIEVEMENT_DEFINITIONS[k].type
              /\ ach[i].criteria_value = ACHIEVEMENT_DEFINITIONS[k].value

\* C14: lazy, idempotent initialisation: for a user with no rows
\* initialize_user_achievements creates one row per catalog definition with
\* current_progress = 0 and unlocked = false; for a user with rows it creates
\* none and leaves every row as it is; create_job_application always runs it
\* before evaluating.
C14_LazyInit ==
    [][\A u \in Users :
          LET before == RowsOf(achievements, u)
              after == RowsOf(achievements', u)
          IN  /\ before \subseteq after
              /\ before # {} => after = before
              /\ (before = {} /\ after # {}) => OnePerDefinition(achievements', after)
              /\ evaluated' = "none" =>
                    /\ \A i \in before : achievements'[i] = achievements[i]
                    /\ \A i \in after \ before :
                          /\ achievements'[i].current_progress = 0
                          /\ achievements'[i].unlocked = FALSE
                          /\ achievements'[i].unlocked_at = Null
              /\ (created' # created /\ evaluated' = u) =>
                    OnePerDefinition(achievements', after)
      ]_vars

\* initialisation has run on its own for a user who has not applied yet
C14_Witness ==
    \E u \in Users :
        /\ created = 0
        /\ OnePerDefinition(achievements, RowsOf(achievements, u))
        /\ \A i \in RowsOf(achievements, u) :
              achievements[i].current_progress = 0 /\ ~achievements[i].unlocked

\* the step is a create_job_application request of user u
CreatedBy(u) == created' = created + 1 /\ evaluated' = u

\* C17: orchestrator ordering in create_job_application: the application is
\* committed, then today's streak record is recomputed, then the achievement
\* rows are initialised, then evaluated, then the motivation message is
\* computed: the streak and the counters the evaluation uses include the
\* request's own application and the record it has just updated.
C17_Ordering ==
    [][\A u \in Users : CreatedBy(u) =>
          /\ TotalApplications(apps', u) = TotalApplications(apps, u) + 1
          /\ \E s \in StreakRowsOf(streaks', u, today') :
                streaks'[s].applications_count = ApplicationsOn(apps', u, today')
          /\ OnePerDefinition(achievements', RowsOf(achievements', u))
          /\ \A i \in RowsOf(achievements', u) :
                (i > Len(achievements) \/ ~achievements[i].unlocked)
                => achievements'[i].current_progress
                      = LiveCounterOf(achievements'[i].achievement_type, u,
                                      apps', streaks', today')
          /\ response' # Null
          /\ response'[1].today_progress = ApplicationsOn(apps', u, today')
          /\ response'[1].current_streak = calculate_current_streak(streaks', u, today')
      ]_vars

\* the first application of a user met the goal of the day, and the same
\* request unlocked the streak row of 1 day and the first-application row
C17_Witness ==
    \E u \in Users, i, j \in 1..Len(achievements) :
        /\ evaluated = u
        /\ TotalApplications(apps, u) = 1
        /\ achievements[i].user_id = u /\ achievements[j].user_id = u
        /\ achievements[i].achievement_type = "streak"
        /\ achievements[j].achievement_type = "application_count"
        /\ InList(i, newly_unlocked) /\ InList(j, newly_unlocked)
        /\ response # Null /\ response[1].type = "celebration"

\* applications_count of the user's record of that day, 0 without a record
RecordedCount(streaks_, u, day) ==
    IF StreakRowsOf(streaks_, u, day) = {} THEN 0
    ELSE streaks_[SeqMin(StreakRowsOf(streaks_, u, day))].applications_count

OnlyRows(table, u) == SelectSeq(table, LAMBDA row : row.user_id = u)
OnlyApps(apps_, u) ==
    [r \in {x \in DOMAIN apps_ : x.user_id = u} |-> apps_[r]]
RowsNamed(rows, keys) == [k \in 1..Len(keys) |-> rows[keys[k]]]

\* C20: per-user ownership: update_daily_streak, initialize_user_achievements
\* and check_and_unlock_achievements invoked for user A leave every streak
\* record and achievement row of any other user B unchanged, and their
\* results depend only on A's applications, records and rows.
C20_Ownership ==
    [][\A a \in Users : CreatedBy(a) =>
          /\ \A b \in Users \ {a} :
                /\ OnlyRows(streaks', b) = OnlyRows(streaks, b)
                /\ OnlyRows(achievements', b) = OnlyRows(achievements, b)
                /\ \A i \in 1..Len(streaks) :
                      streaks[i].user_id = b => streaks'[i] = streaks[i]
                /\ \A i \in 1..Len(achievements) :
                      achievements[i].user_id = b => achievements'[i] = achievements[i]
          /\ LET mine == OnlyApps(apps', a)
                 alone == update_daily_streak(OnlyRows(streaks, a), mine, a,
                                              daily_goal[a], today)
                 res == check_and_unlock_achievements(
                            initialize_user_achievements(OnlyRows(achievements, a), a),
                            mine, alone, a, today)
             IN  /\ OnlyRows(streaks', a) = alone
                 /\ OnlyRows(achievements', a) = res.rows
                 /\ RowsNamed(achievements', newly_unlocked')
                       = RowsNamed(res.rows, res.newly)
      ]_vars

\* a request of one user on a day on which another user, with rows and a
\* record of their own, has a different number of applications
C20_Witness ==
    \E a, b \in Users :
        /\ a # b
        /\ evaluated = a
        /\ newly_unlocked # <<>>
        /\ StreakRowsOf(streaks, a, today) # {}
        /\ StreakRowsOf(streaks, b, today) # {}
        /\ RecordedCount(streaks, a, today) # RecordedCount(streaks, b, today)
        /\ \E i \in RowsOf(achievements, b) : achievements[i].unlocked

C26_LockedBelowThreshold ==
    \A u \in Users :
        /\ \A i \in LockedRowsOf(achievements, u) :
              achievements[i].current_progress < achievements[i].criteria_value
        /\ \A k \in 1..Len(close_achievements(achievements, u)) :
              close_achievements(achievements, u)[k].remaining >= 1

\* an evaluation has left a row one short of its threshold: 4 of 5
C26_Witness ==
    \E u \in Users :
        /\ evaluated = u
        /\ \E k \in 1..Len(close_achievements(achievements, u)) :
              /\ close_achievements(achievements, u)[k].current_progress = 4
              /\ close_achievements(achievements, u)[k].remaining = 1

\* C27: unlocked achievements are downward-closed in the threshold: if a row
\* of some achievement_type with criteria_value t is unlocked, every row of
\* the same user and type with criteria_value <= t is unlocked too.
C27_DownwardClosed ==
    \A i, j \in 1..Len(achievements) :
        ( /\ achievements[i].user_id = achievements[j].user_id
          /\ achievements[i].achievement_type = achievements[j].achievement_type
          /\ achievements[j].criteria_value <= achievements[i].criteria_value
          /\ achievements[i].unlocked )
        => achievements[j].unlocked

\* the second threshold of a type has been reached: both rows are unlocked
C27_Witness ==
    \E i, j \in 1..Len(achievements) :
        /\ achievements[i].user_id = achievements[j].user_id
        /\ achievements[i].achievement_type = achievements[j].achievement_type
        /\ achievements[j].criteria_value < achievements[i].criteria_value
        /\ achievements[i].unlocked /\ achievements[j].unlocked
        /\ achievements[j].unlocked_at # achievements[i].unlocked_at

\* C28: in the response of a create_job_application the motivation message
\* type is progress when today's application count is below the daily goal
\* and celebration otherwise; start, goal_met and maintain_streak are never
\* returned on this path.
C28_CreateMessage ==
    \A u \in Users :
        (evaluated = u /\ response # Null) =>
            /\ response[1].type \in {"progress", "celebration"}
            /\ response[1].type = "progress"
                  <=> ApplicationsOn(apps, u, today) < daily_goal[u]
            /\ response[1].type = "celebration"
                  <=> ApplicationsOn(apps, u, today) >= daily_goal[u]

\* a first application of two that are needed today, after a day that was met
C28_Witness ==
    \E u \in Users :
        /\ evaluated = u
        /\ response # Null
        /\ response[1].type = "progress"
        /\ GoalMetOn(u, today - 1)
        /\ ApplicationsOn(apps, u, today) = 1

\* C29: delete_job_application, update_job_application and
\* update_application_status leave every streak record and every achievement
\* row unchanged: a status change unlocks nothing by itself and a deletion
\* never lowers a stored applications_count or clears a goal_met.
C29_NoReevaluation ==
    [][(apps' # apps /\ created' = created) =>
          /\ streaks' = streaks
          /\ achievements' = achievements
          /\ newly_unlocked' = <<>>
      ]_vars

\* an application has been moved to offer and the first-offer row is still
\* locked; an application of today has gone and the record still counts it
C29_Witness ==
    \E u \in Users, i \in 1..Len(achievements), s \in 1..Len(streaks) :
        /\ TotalOffers(apps, u) >= 1
        /\ achievements[i].user_id = u
        /\ achievements[i].achievement_type = "offer_count"
        /\ achievements[i].criteria_value = 1
        /\ ~achievements[i].unlocked
        /\ streaks[s].user_id = u
        /\ streaks[s].date = today
        /\ streaks[s].applications_count > ApplicationsOn(apps, u, today)

\* the met records of the user in the streaks table
MetRecords(u) ==
    {i \in 1..Len(streaks) : streaks[i].user_id = u /\ streaks[i].goal_met}

\* C21: the backward day-by-day loop of calculate_current_streak terminates
\* for every finite set of streak records, after at most (number of met
\* records of the user) + 1 lookups, and returns the current streak.
C21_Terminates ==
    /\ [](walk.lookups <= Cardinality(MetRecords(walk.user_id)) + 1)
    /\ [](walk.returned # Null =>
             walk.returned[1] = calculate_current_streak(streaks, walk.user_id, today))
    /\ <>(walk.returned # Null)

\* the loop has walked over every met record of the user and returned, and
\* the other user has a met record the walk did not count
C21_Witness ==
    /\ walk # NoWalk
    /\ walk.returned = <<MaxWalkDay + 1>>
    /\ walk.lookups = Cardinality(MetRecords(walk.user_id)) + 1
    /\ \E u \in Users : u # walk.user_id /\ MetRecords(u) # {}


\* C23 (as claimed): after revoke_all_user_tokens(u) every token, access or
\* refresh, that had been issued for u before the call is rejected by
\* verify_token in every later state.
C23_AllRevoked ==
    /\ \A jti \in jwt.revoked_all, t \in TokenTypes : ~verify_token(jwt, jti, t)
    /\ \A k \in 1..Len(jwt.last) :
          jwt.last[k].jti \in jwt.revoked_all => ~jwt.last[k].accepted

\* C24: once blacklist_token has succeeded for a token, verify_token rejects
\* that token in every later state, whatever tokens are created, blacklisted,
\* revoked or swept by cleanup_expired_tokens afterwards.
C24_RevocationPermanent ==
    /\ \A jti \in jwt.revoked, t \in TokenTypes : ~verify_token(jwt, jti, t)
    /\ \A k \in 1..Len(jwt.last) :
          jwt.last[k].jti \in jwt.revoked => ~jwt.last[k].accepted

\* a sweep has removed an expired refresh token, and a token that was
\* blacklisted and has not expired is presented and rejected
C24_Witness ==
    /\ jwt # NoJwt
    /\ jwt.swept
    /\ \E k \in 1..Len(jwt.last) :
          /\ jwt.last[k].jti \in jwt.revoked
          /\ jwt.now < jwt.tokens[jwt.last[k].jti].exp
          /\ jwt.last[k].token_type = jwt.tokens[jwt.last[k].jti].token_type
          /\ ~jwt.last[k].accepted


\* the requests of the client that were admitted in the window [s, s + 60)
AdmittedIn(ip, s) ==
    Len(SelectSeq(limiter.admitted[ip], LAMBDA timestamp :
                      s <= timestamp /\ timestamp < s + RateWindow))

\* the tail of a sequence from its i-th element on
Tail_(seq, i) == SubSeq(seq, i, Len(seq))

\* C25: for every key (client IP, endpoint path) and every 60-second window
\* the number of requests is_rate_limited admits is at most the limit of the
\* endpoint (5 for /api/auth/login, 10 for other /api/auth/ paths, 100
\* otherwise); a rejected request is not recorded: the stored timestamps are
\* the latest admitted ones, and when every admitted request is 60 seconds
\* old the next request is admitted.  (A window with the most admitted
\* requests can be taken to start at an admitted request.)
C25_RateLimit ==
    \A ip \in Ips :
        LET key == <<ip, limiter.endpoint>>
            stored == limiter.rate_limit_storage[key]
            log == limiter.admitted[ip]
        IN  /\ \A s \in {log[k] : k \in 1..Len(log)} :
                  AdmittedIn(ip, s) <= LimitOf(limiter.endpoint)
            /\ Len(stored) <= Len(log)
            /\ stored = Tail_(log, Len(log) - Len(stored) + 1)
            /\ (\A k \in 1..Len(log) : limiter.now - log[k] >= RateWindow)
                  => ~is_rate_limited(limiter.rate_limit_storage, limiter.now, ip,
                                      limiter.endpoint).limited

\* a client was rejected at the limit, waited for the window to pass and
\* has just been admitted again
C25_Witness ==
    /\ limiter # NoLimiter
    /\ \E k \in 1..Len(limiter.last) :
          /\ limiter.rejected[limiter.last[k].ip] > 0
          /\ limiter.last[k].admitted
          /\ Len(limiter.admitted[limiter.last[k].ip]) > LimitOf(limiter.endpoint)
          /\ LimitOf(limiter.endpoint) = GeneralLimit


\* C30 (as claimed): in every state reachable by send_friend_request,
\* accept_friend_request, decline_friend_request and remove_friend each
\* unordered pair of users has at most one friendship row in status pending
\* or accepted, and only the addressee of a pending row moves it to accepted
\* or declined.
C30_FriendshipUnique ==
    /\ \A a, b \in People :
          Cardinality({i \in Between(social.friendships, a, b) :
                          social.friendships[i].status \in {"pending", "accepted"}}) <= 1
    /\ \A k \in 1..Len(social.last) :
          social.last[k].did \in {"accept", "decline"}
              => social.last[k].by = social.last[k].addressee_id


\* C22 (as claimed): a password reset token is single-use: for any
\* interleaving of reset_password requests that carry the same raw token at
\* most one of them changes the password of the user, and a request that
\* verifies the token after it was marked used or has expired is rejected.
C22_SingleUse ==
    /\ Len(reset.changed) <= 1
    /\ \A r \in DOMAIN reset.requests :
          reset.requests[r].spent => reset.requests[r].pc = "rejected"


====
